---- MODULE Spec2Model ----
(***************************************************************************)
(* Model of translate-sql.py: a notebook script that loads a Loan table    *)
(* and a Repayment table, runs a pandas merge / sort_values / groupby /    *)
(* aggregate pipeline over them, builds SQLAlchemy statements for the same *)
(* pipeline, and re-expresses the pipeline with a second pandas chain and  *)
(* a siuba verb chain.                                                     *)
(*                                                                         *)
(* A cell of a dataframe is a set: {} is a missing value (NaN / None /     *)
(* SQL NULL) and {v} is the value v.  Dates are integers yyyymmdd.  A mean *)
(* is an exact fraction <<numerator, denominator>> in lowest terms.        *)
(* loanId, the join and grouping key, and loanAmount are never missing in  *)
(* the input tables; every Repayment payload column may be.                *)
(***************************************************************************)
EXTENDS Integers, Sequences, FiniteSets, TLC

VARIABLES loans_fn, repayments_fn, pc, repayments_proc, join_stmt, agg_stmt,
          rownum_stmt, second_proc, siuba_proc

vars == <<loans_fn, repayments_fn, pc, repayments_proc, join_stmt, agg_stmt,
          rownum_stmt, second_proc, siuba_proc>>

(* ---------------------------------------------------------------- bounds *)

MaxLoans == 2

MaxRepayments == 2

(* ----------------------------------------------------------------- cells *)

NULL == {}

Val(v) == {v}

IsNull(c) == c = {}

Get(c) == CHOOSE v \in c : TRUE

(* ---------------------------------------------------------- input tables *)

LoanIds == {1, 2}

LoanAmounts == {100, 200}

ScheduleOrders == {1, 2}

(* The payload of a Repayment row: payment, repaid date and status of a    *)
(* settled instalment, or all three missing for one not yet settled.       *)
RepaymentPayloads ==
    { [totalPaymentWithinSchedule |-> Val(50), repaidDate |-> Val(20210101),
       status |-> Val("paid")],
      [totalPaymentWithinSchedule |-> Val(30), repaidDate |-> Val(20210201),
       status |-> Val("late")],
      [totalPaymentWithinSchedule |-> NULL, repaidDate |-> NULL,
       status |-> NULL] }

loan_cols ==
    { [loanId |-> Val(i), loanAmount |-> Val(a), status |-> Val("active")] :
        i \in LoanIds, a \in LoanAmounts }

repayment_cols ==
    { [scheduleOrder |-> Val(o),
       totalPaymentWithinSchedule |-> p.totalPaymentWithinSchedule,
       repaidDate |-> p.repaidDate, loanId |-> Val(i), status |-> p.status] :
        o \in ScheduleOrders, i \in LoanIds, p \in RepaymentPayloads }

SeqsUpTo(S, n) == UNION { [1..k -> S] : k \in 0..n }

(* ------------------------------------------------------------- pd.merge  *)

NoRepayment ==
    [scheduleOrder |-> NULL, totalPaymentWithinSchedule |-> NULL,
     repaidDate |-> NULL, status |-> NULL]

(* The overlapping non-key column status gets the suffixes _x and _y.      *)
JoinedRow(l, r) ==
    [loanId |-> l.loanId, loanAmount |-> l.loanAmount, status_x |-> l.status,
     scheduleOrder |-> r.scheduleOrder,
     totalPaymentWithinSchedule |-> r.totalPaymentWithinSchedule,
     repaidDate |-> r.repaidDate, status_y |-> r.status]

RECURSIVE MapJoined(_, _)
MapJoined(l, rs) ==
    IF rs = <<>> THEN <<>>
    ELSE <<JoinedRow(l, Head(rs))>> \o MapJoined(l, Tail(rs))

Matches(l, right) == SelectSeq(right, LAMBDA r : r.loanId = l.loanId)

(* how = "inner" keeps matched pairs only; how = "left" keeps every left   *)
(* row, with missing right columns when nothing matches.  Rows follow the  *)
(* order of the left keys, then the order of the right rows.               *)
RECURSIVE merge(_, _, _)
merge(left, right, how) ==
    IF left = <<>> THEN <<>>
    ELSE LET l == Head(left)
             m == Matches(l, right)
             rows == IF m = <<>> /\ how = "left"
                     THEN <<JoinedRow(l, NoRepayment)>>
                     ELSE MapJoined(l, m)
         IN rows \o merge(Tail(left), right, how)

(* ---------------------------------------------------------- sort_values  *)

(* Ascending, missing values last (na_position = "last").                  *)
CellLess(a, b) ==
    IF IsNull(a) THEN FALSE
    ELSE IF IsNull(b) THEN TRUE
    ELSE Get(a) < Get(b)

RECURSIVE RowLess(_, _, _)
RowLess(a, b, by) ==
    IF by = <<>> THEN FALSE
    ELSE LET c == Head(by)
         IN IF a[c] = b[c] THEN RowLess(a, b, Tail(by))
            ELSE CellLess(a[c], b[c])

(* Insert r after every row that is not greater: a stable insertion.       *)
RECURSIVE InsertStable(_, _, _)
InsertStable(r, sorted, by) ==
    IF sorted = <<>> THEN <<r>>
    ELSE IF RowLess(r, Head(sorted), by) THEN <<r>> \o sorted
    ELSE <<Head(sorted)>> \o InsertStable(r, Tail(sorted), by)

(* A sort on several columns is a lexsort: stable, whatever `kind` says.   *)
RECURSIVE SortPrefix(_, _, _)
SortPrefix(rows, n, by) ==
    IF n = 0 THEN <<>>
    ELSE InsertStable(rows[n], SortPrefix(rows, n - 1, by), by)

(* sort_values without its effect: the rows stay in join order.            *)
sort_values_unsorted(rows, by) == rows

(* sort_values ordering on its first column only.                          *)
sort_values_first_key(rows, by) == SortPrefix(rows, Len(rows), <<by[1]>>)

sort_values(rows, by) == SortPrefix(rows, Len(rows), by)

(* --------------------------------------------------------------- groupby *)

Keys(rows, by) == { rows[i][by] : i \in 1..Len(rows) } \ {NULL}

RECURSIVE SortedCells(_)
SortedCells(S) ==
    IF S = {} THEN <<>>
    ELSE LET m == CHOOSE x \in S : \A y \in S : ~CellLess(y, x)
         IN <<m>> \o SortedCells(S \ {m})

RECURSIVE GroupsOf(_, _, _)
GroupsOf(rows, by, keys) ==
    IF keys = <<>> THEN <<>>
    ELSE <<SelectSeq(rows, LAMBDA r : r[by] = Head(keys))>>
         \o GroupsOf(rows, by, Tail(keys))

(* sort = True, dropna = True: one group per distinct non-missing key, in  *)
(* ascending key order; inside a group the rows keep their order.          *)
groupby(rows, by) == GroupsOf(rows, by, SortedCells(Keys(rows, by)))

(* -------------------------------------------------------------- reducers *)

Column(g, col) == [i \in 1..Len(g) |-> g[i][col]]

NotNull(cells) == SelectSeq(cells, LAMBDA c : ~IsNull(c))

RECURSIVE SumCells(_)
SumCells(cells) ==
    IF cells = <<>> THEN 0 ELSE Get(Head(cells)) + SumCells(Tail(cells))

(* skipna: missing values are skipped, and the sum of none is 0.           *)
sum(g, col) == Val(SumCells(NotNull(Column(g, col))))

max(g, col) ==
    LET vs == { Get(c) : c \in { g[i][col] : i \in 1..Len(g) } \ {NULL} }
    IN IF vs = {} THEN NULL
       ELSE Val(CHOOSE v \in vs : \A w \in vs : w <= v)

(* last taking the last row's entry, missing or not.                       *)
last_row(g, col) == g[Len(g)][col]

(* GroupBy.first / GroupBy.last: the first / last non-missing entry.       *)
first(g, col) ==
    LET vs == NotNull(Column(g, col))
    IN IF vs = <<>> THEN NULL ELSE vs[1]

last(g, col) ==
    LET vs == NotNull(Column(g, col))
    IN IF vs = <<>> THEN NULL ELSE vs[Len(vs)]

RECURSIVE Gcd(_, _)
Gcd(a, b) == IF b = 0 THEN a ELSE Gcd(b, a % b)

(* mean left undivided: the sum of the non-missing entries.                *)
mean_undivided(g, col) ==
    LET vs == NotNull(Column(g, col))
    IN IF vs = <<>> THEN NULL ELSE Val(<<SumCells(vs), 1>>)

mean(g, col) ==
    LET vs == NotNull(Column(g, col))
        s == SumCells(vs)
        d == Gcd(s, Len(vs))
    IN IF vs = <<>> THEN NULL ELSE Val(<<s \div d, Len(vs) \div d>>)

(* Series.head(1) / Series.tail(1): the first / last row's entry as is.    *)
head(g, col) == g[1][col]

tail(g, col) == g[Len(g)][col]

(* ------------------------------------------------------------- aggregate *)

Reduce(g, col, how) ==
    CASE how = "max" -> max(g, col)
      [] how = "sum" -> sum(g, col)
      [] how = "first" -> first(g, col)
      [] how = "last" -> last(g, col)
      [] how = "mean" -> mean(g, col)
      [] how = "head" -> head(g, col)
      [] how = "tail" -> tail(g, col)

(* Named aggregation: output column |-> <<input column, reducer>>; with    *)
(* as_index = False the grouping key is a column of the result.            *)
aggregate(gs, by, named) ==
    [i \in 1..Len(gs) |->
        [c \in DOMAIN named \cup {by} |->
            IF c = by THEN gs[i][1][by]
            ELSE Reduce(gs[i], named[c][1], named[c][2])]]

(* ------------------------------------------------- the pandas pipelines  *)

by_loan_schedule == <<"loanId", "scheduleOrder">>

repayments_proc_agg ==
    [repaidDate |-> <<"repaidDate", "max">>,
     totalPaymentWithinSchedule |-> <<"totalPaymentWithinSchedule", "sum">>,
     loanAmount |-> <<"loanAmount", "first">>,
     scheduleOrder |-> <<"scheduleOrder", "last">>,
     status |-> <<"status_y", "last">>]

second_proc_agg ==
    [repaidDate |-> <<"repaidDate", "max">>,
     totalPaymentWithinSchedule |-> <<"totalPaymentWithinSchedule", "sum">>,
     loanAmount |-> <<"loanAmount", "mean">>,
     scheduleOrder |-> <<"scheduleOrder", "last">>,
     status |-> <<"status_y", "first">>]

(* pd.merge called with how = "left".                                      *)
PandasJoined_left(loans, repayments) == merge(loans, repayments, "left")

(* pd.merge(left, right, on = "loanId") joins with its default how.        *)
PandasJoined(loans, repayments) == merge(loans, repayments, "inner")

(* The pipeline without its sort_values stage.                            *)
PandasSorted_unsorted(loans, repayments) == PandasJoined(loans, repayments)

PandasSorted(loans, repayments) ==
    sort_values(PandasJoined(loans, repayments), by_loan_schedule)

PandasGroups(loans, repayments) ==
    groupby(PandasSorted(loans, repayments), "loanId")

Pipeline(loans, repayments) ==
    aggregate(PandasGroups(loans, repayments), "loanId", repayments_proc_agg)

SecondPipeline(loans, repayments) ==
    aggregate(PandasGroups(loans, repayments), "loanId", second_proc_agg)

(* ---------------------------------------------------- the siuba pipeline *)

siuba_summarize ==
    [repay_date |-> <<"repaidDate", "max">>,
     total_pay |-> <<"totalPaymentWithinSchedule", "sum">>,
     loan_amt |-> <<"loanAmount", "mean">>,
     status |-> <<"status_y", "head">>,
     schedule_order |-> <<"scheduleOrder", "tail">>]

(* left_join joining as inner_join does.                                   *)
left_join_inner(left, right) == merge(left, right, "inner")

left_join(left, right) == merge(left, right, "left")

arrange(rows, by) == sort_values(rows, by)

SiubaGroups(loans, repayments) ==
    groupby(arrange(left_join(loans, repayments), by_loan_schedule), "loanId")

SiubaPipeline(loans, repayments) ==
    aggregate(SiubaGroups(loans, repayments), "loanId", siuba_summarize)

(* ------------------------------------------------ SQLAlchemy statements  *)

loans_tbl == [kind |-> "table", name |-> "loans"]

repayments_tbl == [kind |-> "table", name |-> "repayments"]

Col(t, c) == [kind |-> "column", table |-> t.name, name |-> c]

Func(f, c) == [kind |-> "func", fn |-> f, arg |-> c]

Desc(c) == [kind |-> "desc", arg |-> c]

Over(f, ob, pb, lbl) ==
    [kind |-> "over", fn |-> f, order_by |-> ob, partition_by |-> pb,
     label |-> lbl]

Eq(a, b) == [kind |-> "eq", left |-> a, right |-> b]

select(entities) ==
    [columns |-> entities, joins |-> <<>>, order_by |-> <<>>, group_by |-> <<>>]

(* Select.join(target, onclause): isouter defaults to False, a plain JOIN. *)
join(stmt, target, onclause) ==
    [stmt EXCEPT !.joins =
        Append(@, [target |-> target, onclause |-> onclause, isouter |-> FALSE])]

order_by(stmt, clauses) == [stmt EXCEPT !.order_by = @ \o clauses]

group_by(stmt, clauses) == [stmt EXCEPT !.group_by = @ \o clauses]

on_loanId == Eq(Col(loans_tbl, "loanId"), Col(repayments_tbl, "loanId"))

JoinStmtValue == join(select(<<loans_tbl, repayments_tbl>>), repayments_tbl, on_loanId)

AggStmtValue ==
    group_by(
        order_by(
            join(select(<<loans_tbl, repayments_tbl,
                          Func("max", Col(repayments_tbl, "repaidDate")),
                          Func("sum", Col(repayments_tbl, "totalPaymentWithinSchedule"))>>),
                 repayments_tbl, on_loanId),
            <<Col(loans_tbl, "loanId"), Col(repayments_tbl, "scheduleOrder")>>),
        <<Col(loans_tbl, "loanId")>>)

RownumStmtValue ==
    select(<<Col(loans_tbl, "loanId"),
             Over("row_number", Desc(Col(loans_tbl, "loanAmount")),
                  Col(loans_tbl, "loanId"), "rn")>>)

(* ------------------------------------- what the statements denote (SQL)  *)

FuncCols(stmt) == SelectSeq(stmt.columns, LAMBDA c : c.kind = "func")

SqlJoined(stmt, loans, repayments) ==
    merge(loans, repayments, IF stmt.joins[1].isouter THEN "left" ELSE "inner")

SqlGroups(stmt, loans, repayments) ==
    groupby(SqlJoined(stmt, loans, repayments), stmt.group_by[1].name)

(* MAX and SUM ignore NULLs; both are NULL when every input is NULL.       *)
SqlAggregate(g, f) ==
    IF f.fn = "sum"
    THEN IF NotNull(Column(g, f.arg.name)) = <<>> THEN NULL
         ELSE sum(g, f.arg.name)
    ELSE max(g, f.arg.name)

(* A selected column that is neither grouped nor aggregated takes its      *)
(* value from some row r of the group: which one is not determined.        *)
ResultRow(stmt, g, r) ==
    [bare |-> r,
     funcs |-> [k \in 1..Len(FuncCols(stmt)) |-> SqlAggregate(g, FuncCols(stmt)[k])]]

(* Every result set the grouped statement may return.                      *)
Execute(stmt, loans, repayments) ==
    LET gs == SqlGroups(stmt, loans, repayments)
        picks == { p \in [1..Len(gs) -> 1..(Len(loans) * Len(repayments))] :
                     \A i \in 1..Len(gs) : p[i] <= Len(gs[i]) }
    IN { { ResultRow(stmt, gs[i], gs[i][p[i]]) : i \in 1..Len(gs) } : p \in picks }

(* The statement's result row laid out as a SummaryRow.                    *)
AsSummaryRow(res) ==
    [loanId |-> res.bare.loanId,
     repaidDate |-> res.funcs[1],
     totalPaymentWithinSchedule |-> res.funcs[2],
     loanAmount |-> res.bare.loanAmount,
     scheduleOrder |-> res.bare.scheduleOrder,
     status |-> res.bare.status_y]

(* rank(): one more than the number of rows before row i's peers, so rows *)
(* that tie on the key share a number.                                     *)
Rank(s, amount, i) ==
    1 + Cardinality({ k \in 1..Len(s) : CellLess(amount[i], amount[s[k]]) })

(* row_number(): the position of row i in the ordering s of its partition. *)
RowNumber(s, amount, i) == CHOOSE k \in 1..Len(s) : s[k] = i

OverCol(stmt) == (SelectSeq(stmt.columns, LAMBDA c : c.kind = "over"))[1]

Partition(stmt, loans, key) ==
    { i \in 1..Len(loans) : loans[i][OverCol(stmt).partition_by.name] = key }

(* The orderings of a partition by the ORDER BY key, descending; rows that *)
(* tie on the key may come in either order.                                *)
Orderings(stmt, loans, P) ==
    LET k == OverCol(stmt).order_by.arg.name
    IN { s \in [1..Cardinality(P) -> P] :
           /\ \A i \in P : \E n \in 1..Cardinality(P) : s[n] = i
           /\ \A m, n \in 1..Cardinality(P) :
                m < n => ~CellLess(loans[s[m]][k], loans[s[n]][k]) }

(* Every result the windowed statement may return: row i of loans with its *)
(* number rn.                                                              *)
ExecuteWindow(stmt, loans) ==
    LET by == OverCol(stmt).partition_by.name
        k == OverCol(stmt).order_by.arg.name
        keys == Keys(loans, by)
        all == UNION { Orderings(stmt, loans, Partition(stmt, loans, key)) : key \in keys }
        choices == { o \in [keys -> all] :
                       \A key \in keys :
                          o[key] \in Orderings(stmt, loans, Partition(stmt, loans, key)) }
    IN { [i \in 1..Len(loans) |->
            [loanId |-> loans[i][by],
             rn |-> RowNumber(o[loans[i][by]], Column(loans, k), i)]] : o \in choices }

(* ------------------------------------------------------------ the script *)

Init ==
    /\ loans_fn \in SeqsUpTo(loan_cols, MaxLoans)
    /\ repayments_fn \in SeqsUpTo(repayment_cols, MaxRepayments)
    /\ pc = "code_to_translate"
    /\ repayments_proc = <<>>
    /\ join_stmt = <<>>
    /\ agg_stmt = <<>>
    /\ rownum_stmt = <<>>
    /\ second_proc = <<>>
    /\ siuba_proc = <<>>

RepaymentsProc ==
    /\ pc = "code_to_translate"
    /\ repayments_proc' = Pipeline(loans_fn, repayments_fn)
    /\ pc' = "left_join"
    /\ UNCHANGED <<loans_fn, repayments_fn, join_stmt, agg_stmt, rownum_stmt,
                   second_proc, siuba_proc>>

JoinStmt ==
    /\ pc = "left_join"
    /\ join_stmt' = JoinStmtValue
    /\ pc' = "aggregate_functions"
    /\ UNCHANGED <<loans_fn, repayments_fn, repayments_proc, agg_stmt,
                   rownum_stmt, second_proc, siuba_proc>>

AggStmt ==
    /\ pc = "aggregate_functions"
    /\ agg_stmt' = AggStmtValue
    /\ pc' = "window_functions"
    /\ UNCHANGED <<loans_fn, repayments_fn, repayments_proc, join_stmt,
                   rownum_stmt, second_proc, siuba_proc>>

RownumStmt ==
    /\ pc = "window_functions"
    /\ rownum_stmt' = RownumStmtValue
    /\ pc' = "option_2_pandas"
    /\ UNCHANGED <<loans_fn, repayments_fn, repayments_proc, join_stmt,
                   agg_stmt, second_proc, siuba_proc>>

SecondProc ==
    /\ pc = "option_2_pandas"
    /\ second_proc' = SecondPipeline(loans_fn, repayments_fn)
    /\ pc' = "option_2_siuba"
    /\ UNCHANGED <<loans_fn, repayments_fn, repayments_proc, join_stmt,
                   agg_stmt, rownum_stmt, siuba_proc>>

SiubaProc ==
    /\ pc = "option_2_siuba"
    /\ siuba_proc' = SiubaPipeline(loans_fn, repayments_fn)
    /\ pc' = "done"
    /\ UNCHANGED <<loans_fn, repayments_fn, repayments_proc, join_stmt,
                   agg_stmt, rownum_stmt, second_proc>>

Next ==
    \/ RepaymentsProc
    \/ JoinStmt
    \/ AggStmt
    \/ RownumStmt
    \/ SecondProc
    \/ SiubaProc

Spec == Init /\ [][Next]_vars

(* ------------------------------------------------ vocabulary of claims  *)

Range(f) == { f[i] : i \in DOMAIN f }

Ids(table) == { table[i].loanId : i \in 1..Len(table) }

(* The state a cell leaves behind.  A cell writes its result once and the  *)
(* tables are never written again (see WrittenOnce), so what holds of a    *)
(* result in the state its cell leaves holds of it in every later state.   *)
After(step) ==
    CASE step = "repayments_proc" -> pc = "left_join"
      [] step = "agg_stmt" -> pc = "window_functions"
      [] step = "rownum_stmt" -> pc = "option_2_pandas"
      [] step = "second_proc" -> pc = "option_2_siuba"
      [] step = "siuba_proc" -> pc = "done"

WrittenOnce ==
    [][/\ loans_fn' = loans_fn /\ repayments_fn' = repayments_fn
       /\ pc # "code_to_translate" => repayments_proc' = repayments_proc
       /\ pc \notin {"code_to_translate", "left_join", "aggregate_functions"}
             => agg_stmt' = agg_stmt /\ join_stmt' = join_stmt
       /\ pc \in {"option_2_pandas", "option_2_siuba", "done"}
             => rownum_stmt' = rownum_stmt
       /\ pc \in {"option_2_siuba", "done"} => second_proc' = second_proc
       /\ pc = "done" => siuba_proc' = siuba_proc]_vars

DistinctLoanIds(rows) ==
    \A i, j \in 1..Len(rows) : i # j => rows[i].loanId # rows[j].loanId

Loan(i, a) == [loanId |-> Val(i), loanAmount |-> Val(a), status |-> Val("active")]

Repayment(i, o, p, d, st) ==
    [scheduleOrder |-> Val(o), totalPaymentWithinSchedule |-> p,
     repaidDate |-> d, loanId |-> Val(i), status |-> st]

(* The greatest / least non-missing entry of a column of a group, missing  *)
(* when the column holds none.                                             *)
Greatest(g, col) ==
    IF \A i \in 1..Len(g) : IsNull(g[i][col]) THEN NULL
    ELSE CHOOSE c \in Range(Column(g, col)) \ {NULL} :
            \A i \in 1..Len(g) : IsNull(g[i][col]) \/ Get(g[i][col]) <= Get(c)

Least(g, col) ==
    IF \A i \in 1..Len(g) : IsNull(g[i][col]) THEN NULL
    ELSE CHOOSE c \in Range(Column(g, col)) \ {NULL} :
            \A i \in 1..Len(g) : IsNull(g[i][col]) \/ Get(c) <= Get(g[i][col])

(* The total of a column over the rows n..Len(g), a missing entry adding 0. *)
RECURSIVE TotalFrom(_, _, _)
TotalFrom(g, col, n) ==
    IF n > Len(g) THEN 0
    ELSE (IF IsNull(g[n][col]) THEN 0 ELSE Get(g[n][col])) + TotalFrom(g, col, n + 1)

(* c is the last / first non-missing entry of the column, or missing when  *)
(* every entry is.                                                         *)
IsLastPresent(c, g, col) ==
    \/ c = NULL /\ \A i \in 1..Len(g) : IsNull(g[i][col])
    \/ \E i \in 1..Len(g) :
          /\ c = g[i][col] /\ ~IsNull(c)
          /\ \A j \in (i + 1)..Len(g) : IsNull(g[j][col])

IsFirstPresent(c, g, col) ==
    \/ c = NULL /\ \A i \in 1..Len(g) : IsNull(g[i][col])
    \/ \E i \in 1..Len(g) :
          /\ c = g[i][col] /\ ~IsNull(c)
          /\ \A j \in 1..(i - 1) : IsNull(g[j][col])

(* ------------------------------------------------------------------- C1  *)

(* C1: each pipeline yields exactly one SummaryRow per distinct loanId of  *)
(* its join output: the inner-join pipeline (repayments_proc) has as many  *)
(* rows as there are loanIds present in both tables, the left-join         *)
(* pipeline (siuba) as many as there are loanIds in the Loan table, and no *)
(* loanId appears in two SummaryRows.                                      *)
C1_OneSummaryRowPerLoanId ==
    /\ After("repayments_proc") =>
          /\ Len(repayments_proc) = Cardinality(Ids(loans_fn) \cap Ids(repayments_fn))
          /\ Ids(repayments_proc) = Ids(PandasJoined(loans_fn, repayments_fn))
          /\ DistinctLoanIds(repayments_proc)
    /\ After("siuba_proc") =>
          /\ Len(siuba_proc) = Cardinality(Ids(loans_fn))
          /\ Ids(siuba_proc) = Ids(left_join(loans_fn, repayments_fn))
          /\ DistinctLoanIds(siuba_proc)

C1_Witness ==
    /\ pc = "done"
    /\ Ids(loans_fn) = {Val(1), Val(2)}
    /\ Len(repayments_fn) = 2 /\ Ids(repayments_fn) = {Val(1)}
    /\ Len(repayments_proc) = 1
    /\ Len(siuba_proc) = 2

(* ------------------------------------------------------------------- C2  *)

(* C2 as stated: every SummaryRow of repayments_proc holds the maximum     *)
(* repaidDate of its group, the sum of the group's payments, the           *)
(* loanAmount of the group's first row and the scheduleOrder and status of *)
(* the group's last row, rows taken in (loanId, scheduleOrder) order.      *)
C2_AsStated ==
    After("repayments_proc") =>
        LET gs == PandasGroups(loans_fn, repayments_fn)
        IN /\ Len(repayments_proc) = Len(gs)
           /\ \A i \in 1..Len(gs) :
                /\ repayments_proc[i].repaidDate = Greatest(gs[i], "repaidDate")
                /\ repayments_proc[i].totalPaymentWithinSchedule
                     = Val(TotalFrom(gs[i], "totalPaymentWithinSchedule", 1))
                /\ repayments_proc[i].loanAmount = gs[i][1].loanAmount
                /\ repayments_proc[i].scheduleOrder = gs[i][Len(gs[i])].scheduleOrder
                /\ repayments_proc[i].status = gs[i][Len(gs[i])].status_y

Scenario ==
    /\ loans_fn = <<Loan(1, 100)>>
    /\ repayments_fn = <<Repayment(1, 1, Val(50), Val(20210101), Val("paid")),
                         Repayment(1, 2, Val(30), Val(20210201), Val("late"))>>

(* C2 amended: every SummaryRow of repayments_proc holds the maximum       *)
(* non-missing repaidDate of its group, the sum of the group's payments    *)
(* (missing ones adding 0), and the first non-missing loanAmount and the   *)
(* last non-missing scheduleOrder and status of the group in (loanId,      *)
(* scheduleOrder) order, each missing only when the whole column is; the   *)
(* scenario of loan 1 yields (2021-02-01, 80, 100, 2).                     *)
C2_Reducers ==
    After("repayments_proc") =>
        LET gs == PandasGroups(loans_fn, repayments_fn)
        IN /\ Len(repayments_proc) = Len(gs)
           /\ \A i \in 1..Len(gs) :
                /\ repayments_proc[i].repaidDate = Greatest(gs[i], "repaidDate")
                /\ repayments_proc[i].totalPaymentWithinSchedule
                     = Val(TotalFrom(gs[i], "totalPaymentWithinSchedule", 1))
                /\ IsFirstPresent(repayments_proc[i].loanAmount, gs[i], "loanAmount")
                /\ IsLastPresent(repayments_proc[i].scheduleOrder, gs[i], "scheduleOrder")
                /\ IsLastPresent(repayments_proc[i].status, gs[i], "status_y")
           /\ Scenario =>
                repayments_proc =
                    <<[loanId |-> Val(1), repaidDate |-> Val(20210201),
                       totalPaymentWithinSchedule |-> Val(80),
                       loanAmount |-> Val(100), scheduleOrder |-> Val(2),
                       status |-> Val("late")]>>

C2_Witness ==
    /\ After("repayments_proc")
    /\ Scenario
    /\ Len(repayments_proc) = 1
    /\ repayments_proc[1].totalPaymentWithinSchedule = Val(80)

(* ------------------------------------------------------------------- C3  *)

(* C3: in every group of the sorted join, whatever the order of the        *)
(* Repayment rows in the input, the first reducer on scheduleOrder gives   *)
(* the group's minimum scheduleOrder and the last reducer its maximum; so  *)
(* the scheduleOrder of both pandas pipelines' SummaryRows is the maximum. *)
C3_FirstMinLastMax ==
    LET gs == PandasGroups(loans_fn, repayments_fn)
    IN /\ After("repayments_proc") =>
            \A i \in 1..Len(gs) :
                /\ first(gs[i], "scheduleOrder") = Least(gs[i], "scheduleOrder")
                /\ last(gs[i], "scheduleOrder") = Greatest(gs[i], "scheduleOrder")
                /\ repayments_proc[i].scheduleOrder = Greatest(gs[i], "scheduleOrder")
       /\ After("second_proc") =>
            \A i \in 1..Len(gs) :
                second_proc[i].scheduleOrder = Greatest(gs[i], "scheduleOrder")

(* The Repayment rows of loan 1 arrive in descending scheduleOrder.        *)
C3_Witness ==
    /\ After("second_proc")
    /\ Len(loans_fn) = 1 /\ loans_fn[1].loanId = Val(1)
    /\ Len(repayments_fn) = 2
    /\ repayments_fn[1].loanId = Val(1) /\ repayments_fn[1].scheduleOrder = Val(2)
    /\ repayments_fn[2].loanId = Val(1) /\ repayments_fn[2].scheduleOrder = Val(1)
    /\ second_proc[1].scheduleOrder = Val(2)

(* ------------------------------------------------------------------- C4  *)

Unmatched == Ids(loans_fn) \ Ids(repayments_fn)

SummaryRowsOf(rows, id) == { r \in Range(rows) : r.loanId = id }

(* C4 as stated: a loan without repayments has a SummaryRow in the         *)
(* left-join pipeline whose reduced Repayment fields are all missing, and  *)
(* none in the inner-join pipelines.                                       *)
C4_AsStated ==
    After("siuba_proc") =>
        \A id \in Unmatched :
            /\ SummaryRowsOf(repayments_proc, id) = {}
            /\ SummaryRowsOf(second_proc, id) = {}
            /\ \E r \in SummaryRowsOf(siuba_proc, id) :
                  /\ IsNull(r.repay_date) /\ IsNull(r.total_pay)
                  /\ IsNull(r.status) /\ IsNull(r.schedule_order)

(* C4 amended: a loan without repayments has exactly one SummaryRow in the *)
(* left-join pipeline, with repay_date, status and schedule_order missing  *)
(* and total_pay 0 (the sum of no payments), and none in the inner-join    *)
(* pipelines.                                                              *)
C4_UnmatchedLoan ==
    After("siuba_proc") =>
        \A id \in Unmatched :
            /\ SummaryRowsOf(repayments_proc, id) = {}
            /\ SummaryRowsOf(second_proc, id) = {}
            /\ Cardinality(SummaryRowsOf(siuba_proc, id)) = 1
            /\ \A r \in SummaryRowsOf(siuba_proc, id) :
                  /\ IsNull(r.repay_date) /\ r.total_pay = Val(0)
                  /\ IsNull(r.status) /\ IsNull(r.schedule_order)
                  /\ ~IsNull(r.loan_amt)

C4_Witness ==
    /\ pc = "done"
    /\ Val(2) \in Unmatched
    /\ Val(1) \in Ids(loans_fn) \cap Ids(repayments_fn)
    /\ SummaryRowsOf(siuba_proc, Val(2)) # {}
    /\ SummaryRowsOf(repayments_proc, Val(1)) # {}

(* ------------------------------------------------------------------- C5  *)

(* C5: the statements join_stmt and agg_stmt join with the join kind of    *)
(* the pandas pipeline (inner), and every result set agg_stmt may return   *)
(* is, row order aside, the SummaryRow set of repayments_proc: the same    *)
(* loanIds with the same reduced columns.                                  *)
C5_StatementDenotesPipeline ==
    After("agg_stmt") =>
        /\ \A k \in 1..Len(agg_stmt.joins) : ~agg_stmt.joins[k].isouter
        /\ \A k \in 1..Len(join_stmt.joins) : ~join_stmt.joins[k].isouter
        /\ \A D \in Execute(agg_stmt, loans_fn, repayments_fn) :
              { AsSummaryRow(r) : r \in D } = Range(repayments_proc)

(* ------------------------------------------------------------------- C6  *)

RanksOf(result, id) == { result[i].rn : i \in { j \in DOMAIN result : result[j].loanId = id } }

RowsOf(result, id) == { j \in DOMAIN result : result[j].loanId = id }

(* C6: in every result rownum_stmt may return, the numbers rn given to a   *)
(* partition of k rows are exactly 1..k, no two rows of the partition      *)
(* sharing a number, rows that tie on loanAmount included.                 *)
C6_RanksAreOneToK ==
    After("rownum_stmt") =>
        \A result \in ExecuteWindow(rownum_stmt, loans_fn) :
            /\ Len(result) = Len(loans_fn)
            /\ \A id \in Ids(loans_fn) :
                  /\ RanksOf(result, id) = 1..Cardinality(RowsOf(result, id))
                  /\ \A i, j \in RowsOf(result, id) :
                        i # j => result[i].rn # result[j].rn

(* Two loans of one partition tie on loanAmount.                           *)
C6_Witness ==
    /\ After("rownum_stmt")
    /\ Len(loans_fn) = 2
    /\ loans_fn[1] = loans_fn[2]
    /\ Cardinality(ExecuteWindow(rownum_stmt, loans_fn)) = 2

(* ------------------------------------------------------------------- C7  *)

Reordered(table) ==
    { [i \in 1..Len(table) |-> table[f[i]]] : f \in Permutations(1..Len(table)) }

(* No two rows of the join share both loanId and scheduleOrder.            *)
NoTies(rows) ==
    \A i, j \in 1..Len(rows) :
        i # j => \/ rows[i].loanId # rows[j].loanId
                 \/ rows[i].scheduleOrder # rows[j].scheduleOrder

(* C7 as stated: the pipeline run again on the same tables, or on the same *)
(* tables with their rows in any other order, yields the SummaryRow set of *)
(* repayments_proc, joined rows that tie on (loanId, scheduleOrder)        *)
(* included.                                                               *)
C7_AsStated ==
    After("repayments_proc") =>
        \A l \in Reordered(loans_fn), r \in Reordered(repayments_fn) :
            Range(Pipeline(l, r)) = Range(repayments_proc)

(* C7 amended: the pipeline run again on the same tables yields            *)
(* repayments_proc again; and when no two joined rows tie on (loanId,      *)
(* scheduleOrder), it yields the same SummaryRow set for every order of    *)
(* the rows of either table.                                               *)
C7_Deterministic ==
    /\ After("repayments_proc") => Pipeline(loans_fn, repayments_fn) = repayments_proc
    /\ (After("repayments_proc") /\ NoTies(PandasJoined(loans_fn, repayments_fn))) =>
          \A l \in Reordered(loans_fn), r \in Reordered(repayments_fn) :
              Range(Pipeline(l, r)) = Range(repayments_proc)

(* Two loans, two repayments of loan 1 out of schedule order, no tie.      *)
C7_Witness ==
    /\ After("repayments_proc")
    /\ Len(loans_fn) = 2 /\ loans_fn[1].loanId # loans_fn[2].loanId
    /\ Len(repayments_fn) = 2
    /\ repayments_fn[1].loanId = Val(1) /\ repayments_fn[1].scheduleOrder = Val(2)
    /\ repayments_fn[2].loanId = Val(1) /\ repayments_fn[2].scheduleOrder = Val(1)
    /\ repayments_fn[1].status # repayments_fn[2].status
    /\ NoTies(PandasJoined(loans_fn, repayments_fn))
    /\ Len(repayments_proc) = 1

(* ------------------------------------------------------------------- C8  *)

(* A first / last value v and a mean <<n, d>> are the same number.         *)
SameNumber(c, m) ==
    \/ IsNull(c) /\ IsNull(m)
    \/ ~IsNull(c) /\ ~IsNull(m) /\ Get(m) = <<Get(c), 1>>

(* C8: the first pandas pipeline, the second pandas pipeline and the siuba *)
(* chain give SummaryRows for the same loanIds, with the same loanAmount,  *)
(* scheduleOrder and status for each loanId.                               *)
C8_OneComputation ==
    After("siuba_proc") =>
        /\ Ids(repayments_proc) = Ids(second_proc)
        /\ Ids(second_proc) = Ids(siuba_proc)
        /\ \A a \in Range(repayments_proc), b \in Range(second_proc),
              c \in Range(siuba_proc) :
              (a.loanId = b.loanId /\ b.loanId = c.loanId) =>
                  /\ SameNumber(a.loanAmount, b.loanAmount)
                  /\ b.loanAmount = c.loan_amt
                  /\ a.scheduleOrder = b.scheduleOrder
                  /\ b.scheduleOrder = c.schedule_order
                  /\ a.status = b.status
                  /\ b.status = c.status

(* ------------------------------------------------------------------- C9  *)

RECURSIVE Flatten(_)
Flatten(gs) == IF gs = <<>> THEN <<>> ELSE Head(gs) \o Flatten(Tail(gs))

(* The groups are non-empty runs of the sorted join, end to end, one per   *)
(* loanId, and the SummaryRows come one per group in strictly ascending    *)
(* loanId order.                                                           *)
ContiguousRuns(gs, sorted, summary) ==
    /\ Flatten(gs) = sorted
    /\ \A i \in 1..Len(gs) :
          /\ gs[i] # <<>>
          /\ \A k \in 1..Len(gs[i]) : gs[i][k].loanId = gs[i][1].loanId
    /\ \A i, j \in 1..Len(gs) :
          i < j => Get(gs[i][1].loanId) < Get(gs[j][1].loanId)
    /\ Len(summary) = Len(gs)
    /\ \A i \in 1..Len(gs) : summary[i].loanId = gs[i][1].loanId

(* C9 as stated: the groups are such runs, and the summed payment of a     *)
(* group of one row is that row's payment.                                 *)
C9_AsStated ==
    After("repayments_proc") =>
        LET gs == PandasGroups(loans_fn, repayments_fn)
        IN /\ ContiguousRuns(gs, PandasSorted(loans_fn, repayments_fn), repayments_proc)
           /\ \A i \in 1..Len(gs) :
                Len(gs[i]) = 1 =>
                    repayments_proc[i].totalPaymentWithinSchedule
                        = gs[i][1].totalPaymentWithinSchedule

(* C9 amended: the groups are such runs, and the summed payment of a group *)
(* of one row is that row's payment, or 0 when that payment is missing.    *)
C9_Groups ==
    After("repayments_proc") =>
        LET gs == PandasGroups(loans_fn, repayments_fn)
        IN /\ ContiguousRuns(gs, PandasSorted(loans_fn, repayments_fn), repayments_proc)
           /\ \A i \in 1..Len(gs) :
                Len(gs[i]) = 1 =>
                    repayments_proc[i].totalPaymentWithinSchedule
                        = IF IsNull(gs[i][1].totalPaymentWithinSchedule) THEN Val(0)
                          ELSE gs[i][1].totalPaymentWithinSchedule

(* Loans given as 2 then 1, each with one repayment: two groups of one     *)
(* row, summarised in the order 1, 2.                                      *)
C9_Witness ==
    /\ After("repayments_proc")
    /\ Len(loans_fn) = 2
    /\ loans_fn[1].loanId = Val(2) /\ loans_fn[2].loanId = Val(1)
    /\ Ids(repayments_fn) = {Val(1), Val(2)}
    /\ Len(repayments_proc) = 2
    /\ repayments_proc[1].loanId = Val(1)
    /\ repayments_proc[1].totalPaymentWithinSchedule = Val(50)

(* ------------------------------------------------------------------ C10  *)

UniqueLoanIds == DistinctLoanIds(loans_fn)

(* C10: when no two Loan rows share a loanId, all joined rows of a group   *)
(* carry one loanAmount, and the first reducer (repayments_proc) and the   *)
(* mean reducer (second pandas pipeline) give that same number.            *)
C10_FirstEqualsMean ==
    (After("second_proc") /\ UniqueLoanIds) =>
        LET gs == PandasGroups(loans_fn, repayments_fn)
        IN /\ Len(second_proc) = Len(repayments_proc)
           /\ \A i \in 1..Len(gs) :
                /\ \A k \in 1..Len(gs[i]) : gs[i][k].loanAmount = gs[i][1].loanAmount
                /\ repayments_proc[i].loanAmount = gs[i][1].loanAmount
                /\ SameNumber(repayments_proc[i].loanAmount, second_proc[i].loanAmount)

(* One loan with two repayments: a group of two joined rows.               *)
C10_Witness ==
    /\ After("second_proc")
    /\ UniqueLoanIds
    /\ Len(loans_fn) = 1
    /\ Len(repayments_fn) = 2
    /\ Ids(repayments_fn) = Ids(loans_fn)
    /\ Len(second_proc) = 1
    /\ SameNumber(repayments_proc[1].loanAmount, second_proc[1].loanAmount)

(* The equality of C10 fails in no state: false, since two Loan rows with  *)
(* one loanId and different amounts make first and mean differ.            *)
C10_NonUniqueNeverDiffers ==
    After("second_proc") =>
        \A i \in 1..Len(second_proc) :
            SameNumber(repayments_proc[i].loanAmount, second_proc[i].loanAmount)

====
